---------------------------- MODULE Spec2Model ----------------------------
(***************************************************************************)
(* Model of simple-market-maker (src/src/lib.rs): the ladder builder       *)
(* build_orders, the reconciler calculate_orders_to_make /                 *)
(* calculate_orders_to_cancel, the steps of run_once that apply them to a  *)
(* snapshot returned by Exchange::stats, and the loop of run around them   *)
(* with the ICDex adapter (src/src/icdex/mod.rs) sending the two batches.  *)
(***************************************************************************)
EXTENDS Integers, Sequences, FiniteSets, TLC

VARIABLES
    config,            \* Config (lib.rs:19-29), immutable after startup
    overflow_checks,   \* build profile: TRUE = arithmetic overflow panics, FALSE = wraps
    stats,             \* the Stats snapshot of this iteration (lib.rs:68)
    pc,                \* position inside run_once
    target_orders,     \* lib.rs:70
    orders_to_cancel,  \* lib.rs:72
    orders_to_make,    \* lib.rs:78
    equal_keys_keep_order, \* what sort_unstable_by_key does with equal keys in this build
    book,              \* the exchange: the trader's open orders, as pending returns them
    market_price,      \* the exchange: the latest price
    events_left,       \* how many more events the environment may cause
    stats_result,      \* what stats() returned in this iteration: "none", "ok", "err"
    make_batch,        \* the future of make_orders (icdex/mod.rs:94-100)
    cancel_batch,      \* the future of cancel_orders (icdex/mod.rs:102-108)
    history            \* the snapshots observed so far with the lists computed from them

loop_vars == <<book, market_price, events_left, stats_result, make_batch,
               cancel_batch, history>>

vars == <<config, overflow_checks, stats, pc, target_orders, orders_to_cancel,
          orders_to_make, equal_keys_keep_order, book, market_price, events_left,
          stats_result, make_batch, cancel_batch, history>>

(***************************************************************************)
(* Bounds.  u64 is modelled with U64Bits bits: all arithmetic is reduced   *)
(* modulo 2^U64Bits, so that underflow and overflow are reachable.         *)
(***************************************************************************)
U64Bits == 4
MaxIncrement == 3
MaxDepth == 3
MaxOpen == 3

Modulus == 2 ^ U64Bits
U64Max == Modulus - 1
U64 == 0 .. U64Max

Min(a, b) == IF a <= b THEN a ELSE b

(***************************************************************************)
(* u64 arithmetic.  Each operation has a wrapped result (what a build      *)
(* without overflow checks computes) and an overflow condition (where a    *)
(* build with overflow checks panics).                                     *)
(***************************************************************************)
wrapping_add(a, b) == (a + b) % Modulus
wrapping_sub(a, b) == (a - b + Modulus) % Modulus
wrapping_mul(a, b) == (a * b) % Modulus
\* lib.rs:115 leaving the target amount as it is
minuend_only(a, b) == a

saturating_sub(a, b) == IF b >= a THEN 0 ELSE a - b

add_overflows(a, b) == a + b > U64Max
sub_overflows(a, b) == b > a
mul_overflows(a, b) == a * b > U64Max

(***************************************************************************)
(* starting_bid / starting_ask (lib.rs:196-202).  increment >= 1 here; the *)
(* division by zero is handled by build_orders_panics.                     *)
(***************************************************************************)
starting_bid(latest_price, increment) ==
    wrapping_mul(wrapping_sub(latest_price \div increment, 1), increment)

starting_bid_overflows(latest_price, increment) ==
    \/ sub_overflows(latest_price \div increment, 1)
    \/ mul_overflows(wrapping_sub(latest_price \div increment, 1), increment)

\* lib.rs:201 dividing latest_price itself instead of latest_price - 1
starting_ask_from_latest(latest_price, increment) ==
    wrapping_mul(wrapping_add(latest_price \div increment, 2), increment)

starting_ask(latest_price, increment) ==
    wrapping_mul(
        wrapping_add(wrapping_sub(latest_price, 1) \div increment, 2),
        increment)

starting_ask_overflows(latest_price, increment) ==
    \/ sub_overflows(latest_price, 1)
    \/ add_overflows(wrapping_sub(latest_price, 1) \div increment, 2)
    \/ mul_overflows(
           wrapping_add(wrapping_sub(latest_price, 1) \div increment, 2),
           increment)

(***************************************************************************)
(* Iterator adaptors used by lib.rs.                                       *)
(***************************************************************************)
\* lib.rs:177 with filter() in the place of skip_while()
RECURSIVE skip_every(_, _)
skip_every(s, dropped) ==
    IF s = <<>> THEN <<>>
    ELSE IF s[1] \in dropped THEN skip_every(Tail(s), dropped)
         ELSE <<s[1]>> \o skip_every(Tail(s), dropped)

RECURSIVE skip_while(_, _)
\* skip_while(s, dropped): s without its longest prefix of elements in dropped
skip_while(s, dropped) ==
    IF s = <<>> THEN <<>>
    ELSE IF Head(s) \in dropped THEN skip_while(Tail(s), dropped)
    ELSE s

\* take() without its cap
take_everything(s, n) == s

take(s, n) == SubSeq(s, 1, Min(n, Len(s)))

rev(s) == [i \in 1 .. Len(s) |-> s[Len(s) + 1 - i]]

RECURSIVE interleave_from(_, _, _)
\* itertools::Interleave: the flag is flipped on every call of next(); the
\* iterator the flag selects is asked first and the other one is the fallback.
interleave_from(a, b, flag) ==
    LET f == ~flag IN
    IF a = <<>> /\ b = <<>> THEN <<>>
    ELSE IF f
         THEN IF a # <<>> THEN <<Head(a)>> \o interleave_from(Tail(a), b, f)
              ELSE <<Head(b)>> \o interleave_from(a, Tail(b), f)
         ELSE IF b # <<>> THEN <<Head(b)>> \o interleave_from(a, Tail(b), f)
              ELSE <<Head(a)>> \o interleave_from(Tail(a), b, f)

\* the second iterator asked first
interleave_second_first(a, b) == interleave_from(a, b, TRUE)

interleave(a, b) == interleave_from(a, b, FALSE)

(***************************************************************************)
(* build_orders (lib.rs:171-194).                                          *)
(***************************************************************************)
MakeOrderRequest(t, p, a) == [order_type |-> t, price |-> p, amount |-> a]

\* the price of bid number i (0-based), lib.rs:176
bid_price(sb, i, increment) == wrapping_sub(sb, wrapping_mul(i, increment))
bid_price_overflows(sb, i, increment) ==
    mul_overflows(i, increment) \/ sub_overflows(sb, wrapping_mul(i, increment))

\* the price of ask number i (0-based), lib.rs:185
ask_price(sa, i, increment) == wrapping_add(sa, wrapping_mul(i, increment))
ask_price_overflows(sa, i, increment) ==
    mul_overflows(i, increment) \/ add_overflows(sa, wrapping_mul(i, increment))

\* the prices the predicate of lib.rs:177 skips
bid_skipped(cfg) == {p \in U64 : p <= cfg.max_buy_price}
\* the prices the predicate of lib.rs:186 skips
ask_skipped(cfg) == {p \in U64 : p >= cfg.min_sell_price}

build_bids(latest_price, cfg) ==
    LET sb == starting_bid(latest_price, cfg.increment)
        all == [k \in 1 .. cfg.max_orders_per_direction |->
                    bid_price(sb, k - 1, cfg.increment)]
        kept == skip_while(all, bid_skipped(cfg))
    IN  [k \in 1 .. Len(kept) |-> MakeOrderRequest("Bid", kept[k], cfg.order_size)]

build_asks(latest_price, cfg) ==
    LET sa == starting_ask(latest_price, cfg.increment)
        all == [k \in 1 .. cfg.max_orders_per_direction |->
                    ask_price(sa, k - 1, cfg.increment)]
        kept == skip_while(all, ask_skipped(cfg))
    IN  [k \in 1 .. Len(kept) |-> MakeOrderRequest("Ask", kept[k], cfg.order_size)]

build_orders(latest_price, cfg) ==
    build_bids(latest_price, cfg) \o build_asks(latest_price, cfg)

\* build_orders does not return: a division by zero panics in every build,
\* an arithmetic overflow panics in a build with overflow checks.  map() runs
\* before skip_while(), so every i in 0..max_orders_per_direction is computed.
build_orders_panics(latest_price, cfg, checks) ==
    \/ cfg.increment = 0
    \/ /\ checks
       /\ \/ starting_bid_overflows(latest_price, cfg.increment)
          \/ starting_ask_overflows(latest_price, cfg.increment)
          \/ \E i \in 0 .. cfg.max_orders_per_direction - 1 :
                \/ bid_price_overflows(
                       starting_bid(latest_price, cfg.increment), i, cfg.increment)
                \/ ask_price_overflows(
                       starting_ask(latest_price, cfg.increment), i, cfg.increment)

(***************************************************************************)
(* BTreeMap<u64, MakeOrderRequest> as a function from its keys.            *)
(***************************************************************************)
map_insert(m, k, v) == [x \in (DOMAIN m) \cup {k} |-> IF x = k THEN v ELSE m[x]]

map_remove(m, k) == [x \in (DOMAIN m) \ {k} |-> m[x]]

MinOf(S) == CHOOSE x \in S : \A y \in S : x <= y

RECURSIVE into_values(_)
\* BTreeMap::into_values: the values in ascending order of their keys
into_values(m) ==
    IF DOMAIN m = {} THEN <<>>
    ELSE LET k == MinOf(DOMAIN m) IN <<m[k]>> \o into_values(map_remove(m, k))

Front(s) == SubSeq(s, 1, Len(s) - 1)
Last(s) == s[Len(s)]

\* F applied to the value of v, with v computed once
with(v, F(_)) == CHOOSE r \in {F(x) : x \in {v}} : TRUE

with2(v, w, F(_, _)) == CHOOSE r \in {F(x, y) : x \in {v}, y \in {w}} : TRUE

(***************************************************************************)
(* calculate_orders_to_make (lib.rs:94-128).                               *)
(***************************************************************************)
RECURSIVE targets_by_price(_, _)
\* lib.rs:100-107: the map of the targets of side t, filled in list order
targets_by_price(targets, t) ==
    IF targets = <<>> THEN <<>>
    ELSE LET o == Last(targets)
         IN  with(targets_by_price(Front(targets), t),
                  LAMBDA m : IF o.order_type = t THEN map_insert(m, o.price, o)
                             ELSE m)

\* lib.rs:116 with <= for <
subtract_open_at_min(m, order, min_order_size) ==
    IF order.price \in DOMAIN m
    THEN LET amount == saturating_sub(m[order.price].amount, order.amount)
         IN  IF amount <= min_order_size
             THEN map_remove(m, order.price)
             ELSE [m EXCEPT ![order.price].amount = amount]
    ELSE m

\* lib.rs:110-119: one open order applied to the map of its side
subtract_open(m, order, min_order_size) ==
    IF order.price \in DOMAIN m
    THEN LET amount == saturating_sub(m[order.price].amount, order.amount)
         IN  IF amount < min_order_size
             THEN map_remove(m, order.price)
             ELSE [m EXCEPT ![order.price].amount = amount]
    ELSE m

RECURSIVE subtract_all(_, _, _, _)
\* lib.rs:109-120 for the map of side t: the open orders in list order
subtract_all(m, open_orders, t, min_order_size) ==
    IF open_orders = <<>> THEN m
    ELSE LET o == Last(open_orders)
         IN  with(subtract_all(m, Front(open_orders), t, min_order_size),
                  LAMBDA before :
                      IF o.order_type = t
                      THEN subtract_open(before, o, min_order_size)
                      ELSE before)

calculate_orders_to_make(open_orders, targets, min_order_size, max_orders_to_make) ==
    LET bids_to_make ==
            subtract_all(targets_by_price(targets, "Bid"), open_orders, "Bid",
                         min_order_size)
        asks_to_make ==
            subtract_all(targets_by_price(targets, "Ask"), open_orders, "Ask",
                         min_order_size)
    IN  with2(rev(into_values(bids_to_make)), into_values(asks_to_make),
              LAMBDA bids, asks : take(interleave(bids, asks), max_orders_to_make))

(***************************************************************************)
(* calculate_orders_to_cancel (lib.rs:130-169).                            *)
(***************************************************************************)
CancelOrderRequest(o) == [id |-> o.id]

\* lib.rs:135-142
target_prices(targets, t) ==
    {targets[k].price : k \in {j \in 1 .. Len(targets) : targets[j].order_type = t}}

\* lib.rs:149/154 looking the price up among the targets of both sides
off_target_either_side(order, targets) ==
    order.price \notin target_prices(targets, "Bid") \cup target_prices(targets, "Ask")

\* lib.rs:146-159: the open orders of side t whose price is no target of side t
off_target(order, targets) ==
    order.price \notin target_prices(targets, order.order_type)

RECURSIVE cancel_candidates(_, _, _)
cancel_candidates(open_orders, targets, t) ==
    IF open_orders = <<>> THEN <<>>
    ELSE LET o == Last(open_orders)
         IN  with(cancel_candidates(Front(open_orders), targets, t),
                  LAMBDA before : IF o.order_type = t /\ off_target(o, targets)
                                  THEN Append(before, o) ELSE before)

\* s without its element number i
without(s, i) == SubSeq(s, 1, i - 1) \o SubSeq(s, i + 1, Len(s))

RECURSIVE Permutations_of(_)
Permutations_of(s) ==
    IF s = <<>> THEN {<<>>}
    ELSE UNION {{<<s[i]>> \o r : r \in Permutations_of(without(s, i))} :
                   i \in 1 .. Len(s)}

\* the place of an order in a list of orders with distinct ids
position(s, o) == CHOOSE i \in 1 .. Len(s) : s[i] = o

\* equal keys come out in the order the build fixes
ties_in_order(s, a, b, keep) ==
    /\ a.price = b.price
    /\ IF keep THEN position(s, a) < position(s, b)
       ELSE position(s, a) > position(s, b)

\* lib.rs:161 without Reverse: both sides ascending
sort_unstable_ascending(s, descending) ==
    CHOOSE p \in Permutations_of(s) :
        \A i \in 1 .. Len(p) - 1 :
            \/ p[i].price < p[i + 1].price
            \/ ties_in_order(s, p[i], p[i + 1], equal_keys_keep_order)

\* lib.rs:161-162 with the order of equal keys taken from what earlier
\* iterations left behind
sort_unstable_seeded(s, descending) ==
    CHOOSE p \in Permutations_of(s) :
        \A i \in 1 .. Len(p) - 1 :
            \/ IF descending THEN p[i].price > p[i + 1].price
               ELSE p[i].price < p[i + 1].price
            \/ ties_in_order(s, p[i], p[i + 1], history = {})

\* sort_unstable_by_key (lib.rs:161-162): the permutation sorted by the key.
\* The order of elements with equal keys is not specified, but the sort is
\* deterministic: one build orders equal keys the same way on every call.
sort_unstable_by_price(s, descending) ==
    CHOOSE p \in Permutations_of(s) :
        \A i \in 1 .. Len(p) - 1 :
            \/ IF descending THEN p[i].price > p[i + 1].price
               ELSE p[i].price < p[i + 1].price
            \/ ties_in_order(s, p[i], p[i + 1], equal_keys_keep_order)

calculate_orders_to_cancel(open_orders, targets, max_orders_to_cancel) ==
    LET bids == sort_unstable_by_price(
                    cancel_candidates(open_orders, targets, "Bid"), TRUE)
        asks == sort_unstable_by_price(
                    cancel_candidates(open_orders, targets, "Ask"), FALSE)
    IN  with2(bids, asks,
              LAMBDA b, a :
                  LET q == take(interleave(b, a), max_orders_to_cancel)
                  IN  [k \in 1 .. Len(q) |-> CancelOrderRequest(q[k])])

(***************************************************************************)
(* Inputs.                                                                 *)
(***************************************************************************)
OrderType == {"Bid", "Ask"}

Order(t, id, p, a) == [order_type |-> t, id |-> id, price |-> p, amount |-> a]

Config(inc, size, minsize, maxbuy, minsell, depth, maxmake, maxcancel) ==
    [increment |-> inc, order_size |-> size, min_order_size |-> minsize,
     max_buy_price |-> maxbuy, min_sell_price |-> minsell,
     max_orders_per_direction |-> depth,
     max_orders_to_make_per_iteration |-> maxmake,
     max_orders_to_cancel_per_iteration |-> maxcancel]

\* price guards of the ladder inputs: none, two inside the range, all
GuardPrices == {0, 4, 9, U64Max}

\* the reconciler inputs: latest_price 7, increment 2, order_size 2 and two
\* orders per direction give the ladder Bid@4, Bid@2, Ask@10, Ask@12; the price
\* guards are those of the cold-start scenario (0 and the largest u64)
\* open orders at a target of their side (Bid@4, Ask@10), partly or wholly
\* covering it, and away from the targets of their side: at the best price of
\* the other side or off the grid (11).  The amount of an order away from its
\* side's targets is read nowhere (lib.rs:110 takes Occupied entries only,
\* lib.rs:146-167 read order_type, price and id), so those carry one amount.
OpenShapes ==
    {<<"Bid", 4, 1>>, <<"Bid", 4, 2>>, <<"Ask", 10, 1>>, <<"Ask", 10, 2>>,
     <<"Bid", 10, 1>>, <<"Bid", 11, 1>>, <<"Ask", 4, 1>>, <<"Ask", 11, 1>>}
MinOrderSizes == {0, 1, 3}
\* <<max_orders_to_make_per_iteration, max_orders_to_cancel_per_iteration>>
IterationCaps == {<<0, 0>>, <<2, 2>>, <<4, 3>>}

\* the snapshots Exchange::stats can return: ids are unique
OpenOrderLists ==
    UNION {
        {[i \in 1 .. n |-> Order(f[i][1], i, f[i][2], f[i][3])] :
            f \in [1 .. n -> OpenShapes]} :
        n \in 0 .. MaxOpen}

\* a batch future that has not been polled
IdleBatch == [next |-> 0, phase |-> "idle", sent |-> <<>>, replies |-> <<>>]

\* run_once right after stats() has returned Ok
InitCommon ==
    /\ pc = "build"
    /\ target_orders = <<>>
    /\ orders_to_cancel = <<>>
    /\ orders_to_make = <<>>
    /\ book = stats.open_orders
    /\ market_price = stats.latest_price
    /\ events_left = 0
    /\ stats_result = "ok"
    /\ make_batch = IdleBatch
    /\ cancel_batch = IdleBatch
    /\ history = {}

\* every latest_price, with an empty book
InitLadder ==
    /\ overflow_checks \in BOOLEAN
    /\ equal_keys_keep_order = TRUE
    /\ \E inc \in 0 .. MaxIncrement, depth \in 0 .. MaxDepth,
          maxbuy \in GuardPrices, minsell \in GuardPrices :
          config = Config(inc, 1, 1, maxbuy, minsell, depth, 2 * MaxDepth, 1)
    /\ \E latest \in U64 : stats = [latest_price |-> latest, open_orders |-> <<>>]
    /\ InitCommon

\* every book of at most MaxOpen open orders, around one ladder
InitReconcile ==
    /\ overflow_checks = TRUE
    /\ equal_keys_keep_order \in BOOLEAN
    /\ \E minsize \in MinOrderSizes, caps \in IterationCaps :
          config = Config(2, 2, minsize, 0, U64Max, 2, caps[1], caps[2])
    /\ \E open \in OpenOrderLists :
          stats = [latest_price |-> 7, open_orders |-> open]
    /\ InitCommon

(***************************************************************************)
(* The steps of run_once after stats() has returned (lib.rs:70-83).        *)
(***************************************************************************)
BuildOrders ==
    /\ pc = "build"
    /\ IF build_orders_panics(stats.latest_price, config, overflow_checks)
       THEN /\ pc' = "panicked"
            /\ UNCHANGED target_orders
       ELSE /\ pc' = "cancel"
            /\ target_orders' = build_orders(stats.latest_price, config)
    /\ UNCHANGED <<config, overflow_checks, stats, orders_to_cancel, orders_to_make,
                   equal_keys_keep_order, loop_vars>>

CalculateOrdersToCancel ==
    /\ pc = "cancel"
    /\ orders_to_cancel' =
           calculate_orders_to_cancel(stats.open_orders, target_orders,
                                      config.max_orders_to_cancel_per_iteration)
    /\ pc' = "make"
    /\ UNCHANGED <<config, overflow_checks, stats, target_orders, orders_to_make,
                   equal_keys_keep_order, loop_vars>>

CalculateOrdersToMake ==
    /\ pc = "make"
    /\ orders_to_make' =
           calculate_orders_to_make(stats.open_orders, target_orders,
                                    config.min_order_size,
                                    config.max_orders_to_make_per_iteration)
    /\ pc' = "dispatch"
    /\ UNCHANGED <<config, overflow_checks, stats, target_orders, orders_to_cancel,
                   equal_keys_keep_order, loop_vars>>

NextReconcile == BuildOrders \/ CalculateOrdersToCancel \/ CalculateOrdersToMake

SpecLadder == InitLadder /\ [][NextReconcile]_vars

SpecReconcile == InitReconcile /\ [][NextReconcile]_vars

(***************************************************************************)
(* The exchange behind the Exchange trait (lib.rs:12-17), in the units of  *)
(* the core: an order rests at the price and amount it was requested with  *)
(* until it is filled or cancelled.                                        *)
(***************************************************************************)
ids_of(orders) == {orders[k].id : k \in 1 .. Len(orders)}

\* The txid of a new order: any id no order on the book or in the trader's
\* snapshot carries.  Ids are numbered by side and price, and pending lists
\* the orders by id.
side_number(t) == IF t = "Bid" THEN 0 ELSE 1

fresh_id(b, snapshot, request) ==
    LET base == MaxOpen +
                (side_number(request.order_type) * Modulus + request.price)
                    * (MaxOpen + 1)
    IN  MinOf((base + 1 .. base + Len(b) + Len(snapshot) + 1)
                  \ (ids_of(b) \cup ids_of(snapshot)))

RECURSIVE insert_by_id(_, _)
insert_by_id(b, o) ==
    IF b = <<>> THEN <<o>>
    ELSE IF o.id < b[1].id THEN <<o>> \o b
         ELSE <<b[1]>> \o insert_by_id(Tail(b), o)

\* the book after make_order has succeeded (icdex/mod.rs:49-65)
placed(b, snapshot, request) ==
    insert_by_id(b, Order(request.order_type, fresh_id(b, snapshot, request),
                          request.price, request.amount))

\* the book after cancel_order has succeeded (icdex/mod.rs:67-79)
cancelled(b, request) ==
    LET kept(o) == o.id # request.id IN SelectSeq(b, kept)

\* the book after one unit of its order number i has been filled
filled(b, i) ==
    IF b[i].amount <= 1 THEN without(b, i) ELSE [b EXCEPT ![i].amount = @ - 1]

(***************************************************************************)
(* The futures of ICDex::make_orders and ICDex::cancel_orders              *)
(* (icdex/mod.rs:94-108): next is the request being handled, sent the      *)
(* requests sent so far, replies what came back for them.                  *)
(***************************************************************************)
\* the first poll: an empty list returns Ok(()), otherwise request 1 goes out
start_batch(requests) ==
    IF requests = <<>> THEN [IdleBatch EXCEPT !.phase = "done"]
    ELSE [next |-> 1, phase |-> "in_flight", sent |-> <<1>>, replies |-> <<>>]

\* the request returned Ok: sleep two seconds
after_request_ok(batch) ==
    [batch EXCEPT !.phase = "pacing", !.replies = Append(@, "ok")]

\* icdex/mod.rs:96 sending the request again when it returned Err
resend_after_error(batch) ==
    [batch EXCEPT !.sent = Append(@, batch.next), !.replies = Append(@, "err")]

\* icdex/mod.rs:96 without the ?: going on to the next request
continue_after_error(batch) ==
    [batch EXCEPT !.phase = "pacing", !.replies = Append(@, "err")]

\* the request returned Err: ? returns it from the batch (icdex/mod.rs:96, 104)
after_request_error(batch) ==
    [batch EXCEPT !.phase = "failed", !.replies = Append(@, "err")]

\* the sleep is over: the next request goes out, or the loop ends with Ok(())
after_pacing(batch, requests) ==
    IF batch.next >= Len(requests) THEN [batch EXCEPT !.phase = "done"]
    ELSE [batch EXCEPT !.next = @ + 1, !.phase = "in_flight",
                       !.sent = Append(@, batch.next + 1)]

\* try_join returns the first Err and drops the other future (lib.rs:85-89)
dropped(batch) ==
    IF batch.phase \in {"in_flight", "pacing"}
    THEN [batch EXCEPT !.phase = "dropped"] ELSE batch

\* lib.rs:68 going on to build_orders when stats() returned Err
proceed_after_stats_error == "build"

\* stats().await? returns the Err from run_once, and run sleeps (lib.rs:62-63, 68)
after_stats_error == "sleep"

(***************************************************************************)
(* run (lib.rs:59-65) around run_once, with ICDex::stats (icdex/mod.rs:    *)
(* 84-92) asking for the open orders first and the latest price second.    *)
(***************************************************************************)
OpenOrdersOk ==
    /\ pc = "open_orders"
    /\ stats' = [stats EXCEPT !.open_orders = book]
    /\ pc' = "latest_price"
    /\ UNCHANGED <<config, overflow_checks, target_orders, orders_to_cancel,
                   orders_to_make, equal_keys_keep_order, loop_vars>>

LatestPriceOk ==
    /\ pc = "latest_price"
    /\ stats' = [stats EXCEPT !.latest_price = market_price]
    /\ stats_result' = "ok"
    /\ pc' = "build"
    /\ UNCHANGED <<config, overflow_checks, target_orders, orders_to_cancel,
                   orders_to_make, equal_keys_keep_order, book, market_price,
                   events_left, make_batch, cancel_batch, history>>

\* either query of stats() returns Err
StatsErr ==
    /\ pc \in {"open_orders", "latest_price"}
    /\ stats_result' = "err"
    /\ pc' = after_stats_error
    /\ UNCHANGED <<config, overflow_checks, stats, target_orders, orders_to_cancel,
                   orders_to_make, equal_keys_keep_order, book, market_price,
                   events_left, make_batch, cancel_batch, history>>

\* try_join polls both futures for the first time (lib.rs:85-89)
Dispatch ==
    /\ pc = "dispatch"
    /\ make_batch' = start_batch(orders_to_make)
    /\ cancel_batch' = start_batch(orders_to_cancel)
    /\ pc' = "join"
    /\ UNCHANGED <<config, overflow_checks, stats, target_orders, orders_to_cancel,
                   orders_to_make, equal_keys_keep_order, book, market_price,
                   events_left, stats_result, history>>

MakeOrderOk ==
    /\ pc = "join"
    /\ make_batch.phase = "in_flight"
    /\ book' = placed(book, stats.open_orders, orders_to_make[make_batch.next])
    /\ make_batch' = after_request_ok(make_batch)
    /\ UNCHANGED <<config, overflow_checks, stats, pc, target_orders,
                   orders_to_cancel, orders_to_make, equal_keys_keep_order,
                   market_price, events_left, stats_result, cancel_batch, history>>

\* make_order returns Err, with the order placed or not; when that ends the
\* batch, try_join returns the Err and the cancellation in flight, if any, may
\* or may not still reach the exchange
MakeOrderErr ==
    /\ pc = "join"
    /\ make_batch.phase = "in_flight"
    /\ make_batch' = after_request_error(make_batch)
    /\ \E took_effect, lands \in BOOLEAN :
          LET own == IF took_effect
                     THEN placed(book, stats.open_orders,
                                 orders_to_make[make_batch.next])
                     ELSE book
          IN  IF make_batch'.phase = "failed"
              THEN /\ pc' = "sleep"
                   /\ cancel_batch' = dropped(cancel_batch)
                   /\ book' = IF lands /\ cancel_batch.phase = "in_flight"
                              THEN cancelled(own,
                                             orders_to_cancel[cancel_batch.next])
                              ELSE own
              ELSE /\ book' = own
                   /\ UNCHANGED <<pc, cancel_batch>>
    /\ UNCHANGED <<config, overflow_checks, stats, target_orders, orders_to_cancel,
                   orders_to_make, equal_keys_keep_order, market_price,
                   events_left, stats_result, history>>

MakePaced ==
    /\ pc = "join"
    /\ make_batch.phase = "pacing"
    /\ make_batch' = after_pacing(make_batch, orders_to_make)
    /\ UNCHANGED <<config, overflow_checks, stats, pc, target_orders,
                   orders_to_cancel, orders_to_make, equal_keys_keep_order, book,
                   market_price, events_left, stats_result, cancel_batch, history>>

CancelOrderOk ==
    /\ pc = "join"
    /\ cancel_batch.phase = "in_flight"
    /\ book' = cancelled(book, orders_to_cancel[cancel_batch.next])
    /\ cancel_batch' = after_request_ok(cancel_batch)
    /\ UNCHANGED <<config, overflow_checks, stats, pc, target_orders,
                   orders_to_cancel, orders_to_make, equal_keys_keep_order,
                   market_price, events_left, stats_result, make_batch, history>>

\* cancel_order returns Err, with the order cancelled or not; the placement
\* in flight, if any, may or may not still reach the exchange
CancelOrderErr ==
    /\ pc = "join"
    /\ cancel_batch.phase = "in_flight"
    /\ cancel_batch' = after_request_error(cancel_batch)
    /\ \E took_effect, lands \in BOOLEAN :
          LET own == IF took_effect
                     THEN cancelled(book, orders_to_cancel[cancel_batch.next])
                     ELSE book
          IN  IF cancel_batch'.phase = "failed"
              THEN /\ pc' = "sleep"
                   /\ make_batch' = dropped(make_batch)
                   /\ book' = IF lands /\ make_batch.phase = "in_flight"
                              THEN placed(own, stats.open_orders,
                                          orders_to_make[make_batch.next])
                              ELSE own
              ELSE /\ book' = own
                   /\ UNCHANGED <<pc, make_batch>>
    /\ UNCHANGED <<config, overflow_checks, stats, target_orders, orders_to_cancel,
                   orders_to_make, equal_keys_keep_order, market_price,
                   events_left, stats_result, history>>

CancelPaced ==
    /\ pc = "join"
    /\ cancel_batch.phase = "pacing"
    /\ cancel_batch' = after_pacing(cancel_batch, orders_to_cancel)
    /\ UNCHANGED <<config, overflow_checks, stats, pc, target_orders,
                   orders_to_cancel, orders_to_make, equal_keys_keep_order, book,
                   market_price, events_left, stats_result, make_batch, history>>

\* both futures have returned Ok(()): try_join and run_once return Ok
JoinOk ==
    /\ pc = "join"
    /\ make_batch.phase = "done"
    /\ cancel_batch.phase = "done"
    /\ pc' = "sleep"
    /\ UNCHANGED <<config, overflow_checks, stats, target_orders, orders_to_cancel,
                   orders_to_make, equal_keys_keep_order, loop_vars>>

\* sleep(iteration_interval) is over: the next run_once calls stats()
\* (lib.rs:61-63); the locals of the last run_once are gone
Sleep ==
    /\ pc = "sleep"
    /\ pc' = "open_orders"
    /\ stats_result' = "none"
    /\ make_batch' = IdleBatch
    /\ cancel_batch' = IdleBatch
    /\ target_orders' = <<>>
    /\ orders_to_cancel' = <<>>
    /\ orders_to_make' = <<>>
    /\ stats' = [latest_price |-> 0, open_orders |-> <<>>]
    /\ UNCHANGED <<config, overflow_checks, equal_keys_keep_order, book,
                   market_price, events_left, history>>

(***************************************************************************)
(* The environment: other traders fill the trader's orders and move the    *)
(* price, at any moment.                                                   *)
(***************************************************************************)
MarketPrices == {3, 7}

Fill ==
    /\ events_left > 0
    /\ pc # "panicked"
    /\ \E i \in 1 .. Len(book) : book' = filled(book, i)
    /\ events_left' = events_left - 1
    /\ UNCHANGED <<config, overflow_checks, stats, pc, target_orders,
                   orders_to_cancel, orders_to_make, equal_keys_keep_order,
                   market_price, stats_result, make_batch, cancel_batch, history>>

PriceChange ==
    /\ events_left > 0
    /\ pc # "panicked"
    /\ \E p \in MarketPrices \ {market_price} : market_price' = p
    /\ events_left' = events_left - 1
    /\ UNCHANGED <<config, overflow_checks, stats, pc, target_orders,
                   orders_to_cancel, orders_to_make, equal_keys_keep_order, book,
                   stats_result, make_batch, cancel_batch, history>>

\* no (side, price) of the list holds more than size
RECURSIVE amount_at(_, _, _)
amount_at(orders, t, p) ==
    IF orders = <<>> THEN 0
    ELSE (IF orders[1].order_type = t /\ orders[1].price = p
          THEN orders[1].amount ELSE 0) + amount_at(Tail(orders), t, p)

within_order_size(orders, size) ==
    \A k \in 1 .. Len(orders) :
        amount_at(orders, orders[k].order_type, orders[k].price) <= size

\* the loop starts with its first stats() call, on a book that holds at most
\* order_size at every (side, price)
Init ==
    /\ overflow_checks \in BOOLEAN
    /\ equal_keys_keep_order = TRUE
    /\ config = Config(2, 2, 1, 0, U64Max, 2, 3, 2)
    /\ stats = [latest_price |-> 0, open_orders |-> <<>>]
    /\ pc = "open_orders"
    /\ target_orders = <<>>
    /\ orders_to_cancel = <<>>
    /\ orders_to_make = <<>>
    /\ book \in {b \in OpenOrderLists : Len(b) <= 1 /\ within_order_size(b, 2)}
    /\ market_price \in MarketPrices
    /\ events_left = 2
    /\ stats_result = "none"
    /\ make_batch = IdleBatch
    /\ cancel_batch = IdleBatch
    /\ history = {}

RunOnce ==
    \/ OpenOrdersOk \/ LatestPriceOk \/ BuildOrders \/ CalculateOrdersToCancel
    \/ CalculateOrdersToMake \/ Dispatch \/ MakeOrderOk \/ MakePaced
    \/ CancelOrderOk \/ CancelPaced \/ JoinOk

Next ==
    \/ RunOnce \/ Sleep
    \/ StatsErr \/ MakeOrderErr \/ CancelOrderErr
    \/ Fill \/ PriceChange

Spec == Init /\ [][Next]_vars

(***************************************************************************)
(* The loop against an exchange whose calls always succeed, with a         *)
(* constant price and no fills, from every book of at most MaxOpen orders. *)
(* run_once is a chain of awaits that the runtime keeps polling, and every *)
(* call returns: weak fairness of the loop's steps.                        *)
(***************************************************************************)
ConvergeCaps == {<<1, 1>>, <<2, 2>>}

InitConverge ==
    /\ overflow_checks \in BOOLEAN
    /\ equal_keys_keep_order = TRUE
    /\ \E caps \in ConvergeCaps :
          config = Config(2, 2, 1, 0, U64Max, 2, caps[1], caps[2])
    /\ stats = [latest_price |-> 0, open_orders |-> <<>>]
    /\ pc = "open_orders"
    /\ target_orders = <<>>
    /\ orders_to_cancel = <<>>
    /\ orders_to_make = <<>>
    /\ book \in OpenOrderLists
    /\ market_price \in MarketPrices
    /\ events_left = 0
    /\ stats_result = "none"
    /\ make_batch = IdleBatch
    /\ cancel_batch = IdleBatch
    /\ history = {}

NextConverge == RunOnce \/ Sleep

SpecConverge == InitConverge /\ [][NextConverge]_vars /\ WF_vars(NextConverge)

(***************************************************************************)
(* run_once on a snapshot, and again on a snapshot that a later stats()    *)
(* returns: one observed before, or an empty book.                         *)
(***************************************************************************)
InitReplay ==
    /\ overflow_checks = TRUE
    /\ equal_keys_keep_order \in BOOLEAN
    /\ config = Config(2, 2, 1, 0, U64Max, 2, 2, 2)
    /\ \E open \in OpenOrderLists :
          stats = [latest_price |-> 7, open_orders |-> open]
    /\ pc = "build"
    /\ target_orders = <<>>
    /\ orders_to_cancel = <<>>
    /\ orders_to_make = <<>>
    /\ book = stats.open_orders
    /\ market_price = stats.latest_price
    /\ events_left = 2
    /\ stats_result = "ok"
    /\ make_batch = IdleBatch
    /\ cancel_batch = IdleBatch
    /\ history = {}

\* the rest of the iteration and the sleep, whatever their outcome, and the
\* stats() of a later iteration (lib.rs:61-68)
ObserveAgain ==
    /\ pc = "dispatch"
    /\ events_left > 0
    /\ history' = history \cup {[stats |-> stats,
                                 orders_to_cancel |-> orders_to_cancel,
                                 orders_to_make |-> orders_to_make]}
    /\ \E snapshot \in {h.stats : h \in history'} \cup
                        {[latest_price |-> stats.latest_price, open_orders |-> <<>>]} :
          /\ stats' = snapshot
          /\ book' = snapshot.open_orders
          /\ market_price' = snapshot.latest_price
    /\ events_left' = events_left - 1
    /\ pc' = "build"
    /\ target_orders' = <<>>
    /\ orders_to_cancel' = <<>>
    /\ orders_to_make' = <<>>
    /\ UNCHANGED <<config, overflow_checks, equal_keys_keep_order, stats_result,
                   make_batch, cancel_batch>>

NextReplay == NextReconcile \/ ObserveAgain

SpecReplay == InitReplay /\ [][NextReplay]_vars

(***************************************************************************)
(* Vocabulary of the properties.                                           *)
(***************************************************************************)
AfterBuild == pc \in {"cancel", "make", "dispatch"}
AfterCancel == pc \in {"make", "dispatch"}
AfterMake == pc = "dispatch"

Indices(s) == 1 .. Len(s)

\* the ladder's requests of side t
TargetsOf(t) == {target_orders[k] : k \in {j \in Indices(target_orders) :
                                              target_orders[j].order_type = t}}

\* the open orders (by position) of side t at price p
OpenAt(t, p) == {k \in Indices(stats.open_orders) :
                    /\ stats.open_orders[k].order_type = t
                    /\ stats.open_orders[k].price = p}

RECURSIVE SumAmounts(_)
SumAmounts(K) ==
    IF K = {} THEN 0
    ELSE LET k == CHOOSE x \in K : TRUE
         IN  stats.open_orders[k].amount + SumAmounts(K \ {k})

\* what is left to place at a target: its amount minus all that is open there
Gap(target) ==
    LET open == SumAmounts(OpenAt(target.order_type, target.price))
    IN  IF open >= target.amount THEN 0 ELSE target.amount - open

Emitted(t, p) ==
    \E k \in Indices(orders_to_make) :
        orders_to_make[k].order_type = t /\ orders_to_make[k].price = p

\* no arithmetic of build_orders leaves the u64 range on this snapshot
NoOverflow == ~build_orders_panics(stats.latest_price, config, TRUE)

(***************************************************************************)
(* C1: every Bid of build_orders has price < latest_price and every Ask    *)
(* has price > latest_price, for every latest_price and every config with  *)
(* increment >= 1.                                                         *)
(***************************************************************************)
C1_InsideSpread ==
    AfterBuild =>
        \A k \in Indices(target_orders) :
            IF target_orders[k].order_type = "Bid"
            THEN target_orders[k].price < stats.latest_price
            ELSE target_orders[k].price > stats.latest_price

(***************************************************************************)
(* C2: every Bid of build_orders has price strictly below max_buy_price    *)
(* and every Ask has price strictly above min_sell_price.  Stated for the  *)
(* snapshots on which no arithmetic wraps, where the guards alone decide.  *)
(***************************************************************************)
C2_WithinGuards ==
    (AfterBuild /\ NoOverflow) =>
        \A k \in Indices(target_orders) :
            IF target_orders[k].order_type = "Bid"
            THEN target_orders[k].price < config.max_buy_price
            ELSE target_orders[k].price > config.min_sell_price

(***************************************************************************)
(* C3: build_orders guards the unsigned subtractions: when latest_price <  *)
(* increment, or starting_bid - i*increment would go below zero for some   *)
(* i, it returns normally and emits no bid for that i or a later one, so   *)
(* every bid price is starting_bid - i*increment computed without wrap and *)
(* there are at most starting_bid/increment + 1 bids.                      *)
(***************************************************************************)
ExactStartingBid == (stats.latest_price \div config.increment - 1) * config.increment

BidUnderflows ==
    \/ stats.latest_price < config.increment
    \/ \E i \in 0 .. config.max_orders_per_direction - 1 :
          ExactStartingBid - i * config.increment < 0

C3_SubtractionGuarded ==
    (config.increment >= 1 /\ BidUnderflows /\ pc # "build") =>
        /\ pc # "panicked"
        /\ \A b \in TargetsOf("Bid") :
              \E i \in 0 .. config.max_orders_per_direction - 1 :
                  /\ ExactStartingBid - i * config.increment >= 0
                  /\ b.price = ExactStartingBid - i * config.increment
        /\ ExactStartingBid < 0 => TargetsOf("Bid") = {}
        /\ ExactStartingBid >= 0 =>
              Cardinality(TargetsOf("Bid")) <= ExactStartingBid \div config.increment + 1

(***************************************************************************)
(* The reconciler's result, stated from the snapshot.                      *)
(***************************************************************************)
\* a target survives when nothing is open at its price, or when what is left
\* to place there reaches min_order_size
Survives(target) ==
    \/ OpenAt(target.order_type, target.price) = {}
    \/ Gap(target) >= config.min_order_size

Survivors(t) ==
    {MakeOrderRequest(t, x.price, Gap(x)) : x \in {y \in TargetsOf(t) : Survives(y)}}

\* the requests of S in ascending or descending order of price (prices distinct)
SortedByPrice(S, descending) ==
    CHOOSE s \in [1 .. Cardinality(S) -> S] :
        \A i, j \in 1 .. Cardinality(S) :
            i < j => IF descending THEN s[i].price > s[j].price
                     ELSE s[i].price < s[j].price

\* a, b alternating, a first; the rest of the longer one follows
Alternate(a, b) ==
    LET m == Min(Len(a), Len(b)) IN
    [k \in 1 .. Len(a) + Len(b) |->
        IF k <= 2 * m
        THEN IF k % 2 = 1 THEN a[(k + 1) \div 2] ELSE b[k \div 2]
        ELSE IF Len(a) > m THEN a[k - m] ELSE b[k - m]]

Prefix(s, n) == [k \in 1 .. Min(n, Len(s)) |-> s[k]]

MakeCap == config.max_orders_to_make_per_iteration
CancelCap == config.max_orders_to_cancel_per_iteration

\* the open orders (by position) whose price is no target price of their side
OffTargetOpen ==
    {k \in Indices(stats.open_orders) :
        stats.open_orders[k].price \notin
            {x.price : x \in TargetsOf(stats.open_orders[k].order_type)}}

Cancelled(k) ==
    \E c \in Indices(orders_to_cancel) : orders_to_cancel[c].id = stats.open_orders[k].id

(***************************************************************************)
(* C4 as claimed: a target at (side, price) is emitted by                  *)
(* calculate_orders_to_make if and only if order_size minus the sum of the *)
(* open amounts of its side at that price, clamped at zero, is >=          *)
(* min_order_size, and the emitted amount is that difference.              *)
(***************************************************************************)
C4_PlacedIffGapReachesMin ==
    AfterMake =>
        \A x \in TargetsOf("Bid") \cup TargetsOf("Ask") :
            /\ Emitted(x.order_type, x.price) <=> Gap(x) >= config.min_order_size
            /\ \A k \in Indices(orders_to_make) :
                  (/\ orders_to_make[k].order_type = x.order_type
                   /\ orders_to_make[k].price = x.price)
                      => orders_to_make[k].amount = Gap(x)

\* s with its elements i and i + 1 exchanged.  Every order of the open orders
\* is a snapshot of the specification, and every permutation is a product of
\* such exchanges.
Swapped(s, i) ==
    [k \in 1 .. Len(s) |-> IF k = i THEN s[i + 1] ELSE IF k = i + 1 THEN s[i] ELSE s[k]]

(***************************************************************************)
(* C4 amended: a target survives if and only if no open order of its side  *)
(* sits at its price or the clamped difference is >= min_order_size; a     *)
(* survivor's amount is the clamped difference; calculate_orders_to_make   *)
(* emits min(max_orders_to_make, number of survivors) distinct survivors   *)
(* and nothing else; and the result is the same for every order of the     *)
(* open orders in the snapshot.                                            *)
(***************************************************************************)
C4_PlacedAreSurvivors ==
    AfterMake =>
        /\ \A k \in Indices(orders_to_make) :
              orders_to_make[k] \in Survivors(orders_to_make[k].order_type)
        /\ \A i, j \in Indices(orders_to_make) :
              i # j => orders_to_make[i] # orders_to_make[j]
        /\ Len(orders_to_make) =
              Min(MakeCap, Cardinality(Survivors("Bid")) + Cardinality(Survivors("Ask")))
        /\ \A i \in 1 .. Len(stats.open_orders) - 1 :
              calculate_orders_to_make(Swapped(stats.open_orders, i), target_orders,
                                       config.min_order_size, MakeCap)
                  = orders_to_make

\* a partly filled target is placed with its gap, a target whose gap is below
\* min_order_size is not placed, and a target is matched by two open orders
C4_PartialFillPlaced ==
    /\ AfterMake
    /\ \E x \in TargetsOf("Bid") :
          /\ OpenAt("Bid", x.price) # {}
          /\ 0 < Gap(x) /\ Gap(x) < x.amount
          /\ MakeOrderRequest("Bid", x.price, Gap(x)) \in
                 {orders_to_make[k] : k \in Indices(orders_to_make)}
    /\ \E x \in TargetsOf("Ask") :
          /\ Cardinality(OpenAt("Ask", x.price)) = 2
          /\ Gap(x) < config.min_order_size
          /\ ~Emitted("Ask", x.price)

(***************************************************************************)
(* C5: if an open order sits at a target price of its side with amount >=  *)
(* the target's amount, no placement for that target is emitted, for every *)
(* config (min_order_size = 0 included).                                   *)
(***************************************************************************)
C5_SatisfiedTargetNotPlaced ==
    AfterMake =>
        \A k \in Indices(stats.open_orders) :
            \A x \in TargetsOf(stats.open_orders[k].order_type) :
                (/\ x.price = stats.open_orders[k].price
                 /\ stats.open_orders[k].amount >= x.amount)
                    => ~Emitted(x.order_type, x.price)

(***************************************************************************)
(* C6: every MakeOrderRequest handed to Exchange.make_orders has           *)
(* amount > 0.                                                             *)
(***************************************************************************)
C6_PositiveAmounts ==
    AfterMake => \A k \in Indices(orders_to_make) : orders_to_make[k].amount > 0

(***************************************************************************)
(* C7: the placements handed to make_orders are at most                    *)
(* max_orders_to_make_per_iteration and the cancellations handed to        *)
(* cancel_orders at most max_orders_to_cancel_per_iteration.               *)
(***************************************************************************)
C7_WithinCaps ==
    /\ AfterCancel => Len(orders_to_cancel) <= CancelCap
    /\ AfterMake => Len(orders_to_make) <= MakeCap

\* both caps cut: more survivors and more off-target orders than the caps
C7_BothCapsCut ==
    /\ AfterMake
    /\ MakeCap > 0 /\ Len(orders_to_make) = MakeCap
    /\ Cardinality(Survivors("Bid")) + Cardinality(Survivors("Ask")) > MakeCap
    /\ CancelCap > 0 /\ Len(orders_to_cancel) = CancelCap
    /\ Cardinality(OffTargetOpen) > CancelCap

(***************************************************************************)
(* C8: the output of calculate_orders_to_make is the first                 *)
(* max_orders_to_make elements of the surviving bids in descending price   *)
(* alternating with the surviving asks in ascending price, bid first, the  *)
(* rest of the longer side following; with an empty book it is this        *)
(* sequence over the whole ladder, and nothing is cancelled.               *)
(***************************************************************************)
C8_PlacementsInterleaved ==
    AfterMake =>
        /\ orders_to_make =
              Prefix(Alternate(SortedByPrice(Survivors("Bid"), TRUE),
                               SortedByPrice(Survivors("Ask"), FALSE)),
                     MakeCap)
        /\ stats.open_orders = <<>> =>
              /\ orders_to_make =
                    Prefix(Alternate(SortedByPrice(TargetsOf("Bid"), TRUE),
                                     SortedByPrice(TargetsOf("Ask"), FALSE)),
                           MakeCap)
              /\ orders_to_cancel = <<>>

\* one side is exhausted and the rest of the other follows
C8_LongerSideFollows ==
    /\ AfterMake
    /\ Len(orders_to_make) = 3
    /\ orders_to_make[1].order_type = "Bid"
    /\ orders_to_make[2].order_type = "Ask"
    /\ orders_to_make[3].order_type = "Ask"
    /\ stats.open_orders # <<>>

(***************************************************************************)
(* C9: an id is in the output of calculate_orders_to_cancel only if its    *)
(* order's price is no target price of its side; an open order at a target *)
(* price of its side is never cancelled, duplicate or oversized as it may  *)
(* be; and when max_orders_to_cancel >= the number of off-target open      *)
(* orders, every one of them is cancelled.                                 *)
(***************************************************************************)
C9_CancelOnlyOffTarget ==
    AfterCancel =>
        /\ \A c \in Indices(orders_to_cancel) :
              \E k \in OffTargetOpen : stats.open_orders[k].id = orders_to_cancel[c].id
        /\ \A k \in Indices(stats.open_orders) \ OffTargetOpen : ~Cancelled(k)
        /\ CancelCap >= Cardinality(OffTargetOpen) =>
              \A k \in OffTargetOpen : Cancelled(k)

\* two open orders at one target price, together above the target's amount,
\* are kept while the off-target order beside them is cancelled
C9_DuplicateKept ==
    /\ AfterCancel
    /\ \E x \in TargetsOf("Bid") :
          /\ Cardinality(OpenAt("Bid", x.price)) = 2
          /\ SumAmounts(OpenAt("Bid", x.price)) > x.amount
          /\ \A k \in OpenAt("Bid", x.price) : ~Cancelled(k)
    /\ Cardinality(OffTargetOpen) = 1
    /\ Len(orders_to_cancel) = 1

(***************************************************************************)
(* C10: the output of calculate_orders_to_cancel is the first              *)
(* max_orders_to_cancel elements of the off-target bids in descending      *)
(* price alternating with the off-target asks in ascending price, bid      *)
(* first, the rest of the longer side following.                           *)
(***************************************************************************)
\* the open orders of K, by position, in order of price (ties in any order)
OrderedByPrice(K, descending) ==
    CHOOSE s \in [1 .. Cardinality(K) -> K] :
        /\ \A i, j \in 1 .. Cardinality(K) : i # j => s[i] # s[j]
        /\ \A i, j \in 1 .. Cardinality(K) :
              i < j => IF descending
                       THEN stats.open_orders[s[i]].price >= stats.open_orders[s[j]].price
                       ELSE stats.open_orders[s[i]].price <= stats.open_orders[s[j]].price

SideAndPrice(k) == <<stats.open_orders[k].order_type, stats.open_orders[k].price>>

OffTargetOf(t) == {k \in OffTargetOpen : stats.open_orders[k].order_type = t}

\* the position in the snapshot of the order a cancellation names
CancelledOrder(c) ==
    CHOOSE k \in Indices(stats.open_orders) :
        stats.open_orders[k].id = orders_to_cancel[c].id

C10_CancellationsInterleaved ==
    AfterCancel =>
        LET bids == OrderedByPrice(OffTargetOf("Bid"), TRUE)
            asks == OrderedByPrice(OffTargetOf("Ask"), FALSE)
            want == Prefix(Alternate(bids, asks), CancelCap)
        IN  /\ \A c \in Indices(orders_to_cancel) :
                  \E k \in Indices(stats.open_orders) :
                      stats.open_orders[k].id = orders_to_cancel[c].id
            /\ \A c, d \in Indices(orders_to_cancel) :
                  c # d => orders_to_cancel[c].id # orders_to_cancel[d].id
            /\ [c \in Indices(orders_to_cancel) |-> SideAndPrice(CancelledOrder(c))]
                  = [c \in Indices(want) |-> SideAndPrice(want[c])]

\* the cap cuts an alternation of two bids at different prices and an ask
C10_CapCutsAlternation ==
    /\ AfterCancel
    /\ Cardinality(OffTargetOf("Bid")) = 2
    /\ \E i, j \in OffTargetOf("Bid") :
          stats.open_orders[i].price < stats.open_orders[j].price
    /\ Cardinality(OffTargetOf("Ask")) = 1
    /\ CancelCap = 2
    /\ Len(orders_to_cancel) = 2
    /\ \E k \in OffTargetOf("Ask") : orders_to_cancel[2].id = stats.open_orders[k].id

(***************************************************************************)
(* C17: for every latest_price >= increment >= 1, starting_bid is the      *)
(* largest multiple of increment that is <= latest_price - increment and   *)
(* starting_ask is the smallest multiple of increment that is >=           *)
(* latest_price + increment, also when latest_price is itself a multiple   *)
(* of increment.                                                           *)
(***************************************************************************)
Multiples(increment) == {m \in 0 .. 3 * Modulus : m % increment = 0}

LargestMultipleAtMost(x, increment) ==
    CHOOSE m \in Multiples(increment) :
        m <= x /\ \A n \in Multiples(increment) : n <= x => n <= m

SmallestMultipleAtLeast(x, increment) ==
    CHOOSE m \in Multiples(increment) :
        m >= x /\ \A n \in Multiples(increment) : n >= x => n >= m

PriceAtLeastIncrement ==
    config.increment >= 1 /\ stats.latest_price >= config.increment

NearestAsk ==
    SmallestMultipleAtLeast(stats.latest_price + config.increment, config.increment)

\* the claim as it is worded, for every u64 latest_price
C17_NearestMultiples ==
    PriceAtLeastIncrement =>
        /\ starting_bid(stats.latest_price, config.increment) =
               LargestMultipleAtMost(stats.latest_price - config.increment,
                                     config.increment)
        /\ starting_ask(stats.latest_price, config.increment) = NearestAsk

(***************************************************************************)
(* C17, amended: the same, the starting_ask half for the prices whose      *)
(* nearest multiple above still is a u64.                                  *)
(***************************************************************************)
C17_NearestRepresentableMultiples ==
    PriceAtLeastIncrement =>
        /\ starting_bid(stats.latest_price, config.increment) =
               LargestMultipleAtMost(stats.latest_price - config.increment,
                                     config.increment)
        /\ ~starting_bid_overflows(stats.latest_price, config.increment)
        /\ NearestAsk <= U64Max =>
               /\ starting_ask(stats.latest_price, config.increment) = NearestAsk
               /\ ~starting_ask_overflows(stats.latest_price, config.increment)

\* latest_price is a multiple of increment and the ladder starts one
\* increment on either side of it
C17_LadderAroundMultiple ==
    /\ AfterBuild
    /\ config.increment >= 2
    /\ stats.latest_price >= config.increment
    /\ stats.latest_price % config.increment = 0
    /\ \E b \in TargetsOf("Bid") : b.price = stats.latest_price - config.increment
    /\ \E a \in TargetsOf("Ask") : a.price = stats.latest_price + config.increment

(***************************************************************************)
(* C19: absent arithmetic wrap the price guards are all-or-nothing per     *)
(* side: the bid side is empty when starting_bid <= max_buy_price and      *)
(* otherwise holds all max_orders_per_direction bids, the ask side is      *)
(* empty when starting_ask >= min_sell_price and otherwise holds all asks. *)
(***************************************************************************)
CountOf(t) ==
    Cardinality({k \in Indices(target_orders) : target_orders[k].order_type = t})

LadderSteps == 0 .. config.max_orders_per_direction - 1

C19_GuardsAllOrNothing ==
    (AfterBuild /\ NoOverflow) =>
        LET sb == starting_bid(stats.latest_price, config.increment)
            sa == starting_ask(stats.latest_price, config.increment)
        IN  /\ IF sb <= config.max_buy_price
               THEN CountOf("Bid") = 0
               ELSE /\ CountOf("Bid") = config.max_orders_per_direction
                    /\ {b.price : b \in TargetsOf("Bid")} =
                           {sb - i * config.increment : i \in LadderSteps}
            /\ IF sa >= config.min_sell_price
               THEN CountOf("Ask") = 0
               ELSE /\ CountOf("Ask") = config.max_orders_per_direction
                    /\ {a.price : a \in TargetsOf("Ask")} =
                           {sa + i * config.increment : i \in LadderSteps}

\* max_buy_price lies inside the bid ladder and every bid is kept
C19_GuardInsideLadder ==
    /\ AfterBuild
    /\ NoOverflow
    /\ config.max_orders_per_direction >= 2
    /\ starting_bid(stats.latest_price, config.increment) > config.max_buy_price
    /\ starting_bid(stats.latest_price, config.increment) - config.increment
           <= config.max_buy_price
    /\ CountOf("Bid") = config.max_orders_per_direction
    /\ CountOf("Ask") = 0

(***************************************************************************)
(* Vocabulary of the properties of the loop.                               *)
(***************************************************************************)
Batches == {make_batch, cancel_batch}

IterationOver == pc = "sleep"

\* the iteration got as far as try_join
Dispatched == make_batch.phase # "idle" \/ cancel_batch.phase # "idle"

(***************************************************************************)
(* C11: when an iteration reaches dispatch, make_orders and cancel_orders  *)
(* are both started and both are awaited to completion before the          *)
(* iteration ends: a failure of one batch does not abandon the other batch *)
(* while it still has requests in flight or not yet sent.                  *)
(***************************************************************************)
C11_BothBatchesAwaited ==
    /\ pc = "join" => \A b \in Batches : b.phase # "idle"
    /\ (IterationOver /\ Dispatched) =>
          \A b \in Batches : b.phase \in {"done", "failed"}

(***************************************************************************)
(* C12: the loop never exits on its own: whatever an iteration's outcome   *)
(* (stats error, placement error, cancellation error, success) and         *)
(* whatever latest_price the exchange reports, the loop goes on to the     *)
(* sleep and to another iteration.                                         *)
(***************************************************************************)
C12_LoopNeverExits == pc # "panicked"

(***************************************************************************)
(* C14: if stats() fails, neither make_orders nor cancel_orders is called  *)
(* in that iteration, and no make or cancel call starts before that        *)
(* iteration's stats() has returned successfully.                          *)
(***************************************************************************)
C14_NoDispatchWithoutStats ==
    /\ stats_result # "ok" =>
          \A b \in Batches : b.phase = "idle" /\ b.sent = <<>>
    /\ pc \in {"build", "cancel", "make", "dispatch", "join"} => stats_result = "ok"

\* stats() failed on an empty book, where every target is waiting to be placed
C14_StatsFailedNothingSent ==
    /\ IterationOver
    /\ stats_result = "err"
    /\ book = <<>>
    /\ ~Dispatched

(***************************************************************************)
(* C15: within one iteration each placement request and each cancellation  *)
(* request is attempted at most once; no request is sent again after a     *)
(* failure.                                                                *)
(***************************************************************************)
C15_AtMostOnce ==
    /\ \A b \in Batches : \A i, j \in Indices(b.sent) : i # j => b.sent[i] # b.sent[j]
    /\ \A i \in Indices(make_batch.sent) : make_batch.sent[i] \in Indices(orders_to_make)
    /\ \A i \in Indices(cancel_batch.sent) :
          cancel_batch.sent[i] \in Indices(orders_to_cancel)
    /\ \A b \in Batches : Len(b.replies) <= Len(b.sent)

\* the first placement failed and the iteration ended with it sent once
C15_FailedOnceNotResent ==
    /\ IterationOver
    /\ make_batch.phase = "failed"
    /\ make_batch.sent = <<1>>
    /\ make_batch.replies = <<"err">>
    /\ Len(orders_to_make) >= 2

C20_SequentialUntilFailure ==
    \A b \in Batches :
        /\ \A i \in Indices(b.sent) : b.sent[i] = i
        /\ Len(b.replies) \in {Len(b.sent) - 1, Len(b.sent)} \cup {0}
        /\ \A i \in Indices(b.sent) : i < Len(b.sent) => b.replies[i] = "ok"

\* the second of three placements failed and the third was never sent
C20_ThirdNeverSent ==
    /\ IterationOver
    /\ Len(orders_to_make) = 3
    /\ make_batch.sent = <<1, 2>>
    /\ make_batch.replies = <<"ok", "err">>

(***************************************************************************)
(* C13: with a constant latest_price >= increment, no fills,               *)
(* min_order_size >= 1, both caps >= 1 and an exchange whose calls always  *)
(* succeed, from any initial set of open orders the loop eventually        *)
(* reaches a state in which no open order has a price outside its side's   *)
(* target set and every target price has no placeable gap left, and from   *)
(* then on every iteration dispatches an empty placement list and an empty *)
(* cancellation list.                                                      *)
(***************************************************************************)
\* the ladder of the constant price, read without wrap-around where nothing wraps
LadderNow == build_orders(market_price, config)

NoPlaceableGap ==
    \A k \in Indices(LadderNow) :
        LET open == amount_at(book, LadderNow[k].order_type, LadderNow[k].price)
        IN  /\ \E i \in Indices(book) :
                  /\ book[i].order_type = LadderNow[k].order_type
                  /\ book[i].price = LadderNow[k].price
            /\ (IF open >= config.order_size THEN 0 ELSE config.order_size - open)
                  < config.min_order_size

BookSettled ==
    /\ \A i \in Indices(book) :
          \E k \in Indices(LadderNow) :
              /\ LadderNow[k].order_type = book[i].order_type
              /\ LadderNow[k].price = book[i].price
    /\ NoPlaceableGap

NothingToDispatch ==
    pc = "dispatch" => orders_to_make = <<>> /\ orders_to_cancel = <<>>

C13_Converges ==
    /\ <>BookSettled
    /\ [](BookSettled => []NothingToDispatch)

=============================================================================
